---- MODULE Spec2Model ----
(***************************************************************************)
(* Kanban board of src/script.js (the second, complete copy of the script, *)
(* lines 698-1581): the task movement engine (moveTask,                    *)
(* createNewTaskInBacklog, initializeTasks) and the drag recognizer        *)
(* (desktop drag events and the touch long-press state machine).           *)
(*                                                                         *)
(* Object references are modelled by identity: a task object is its index  *)
(* in the tasks array (tasks are only ever pushed), a card element is an   *)
(* element id, a pending setTimeout is a timer id.  0 stands for null.     *)
(* At the end of every handler the ids are renumbered (Canon), which       *)
(* changes no reference: ids are compared only for equality.               *)
(*                                                                         *)
(* The handlers are operators on S, the record of the program's globals    *)
(* and of its card elements; an action applies one handler to the current  *)
(* state.  Written but never read by a decision, and left out: touchStartX,*)
(* touchStartY (their use is the totalMove the move event is tried with),  *)
(* initialScrollTop, dragDirection, currentTouchEvent, touchStartTime.     *)
(***************************************************************************)
EXTENDS Integers, Sequences, FiniteSets, TLC

\* ------------------------------------------------------------------ bounds
\* Largest number of tasks the board holds (seed tasks plus spawned ones).
MaxTasks == 3
\* The same for the runs of the recognizer.
MaxBoard == 2
\* Largest number of setTimeout callbacks pending at once.
MaxPending == 2
\* Largest number of fingers held on cards at once.
MaxTouches == 2
\* the tasks on the board where only native drags are explored
MaxDesktopBoard == 3

\* ------------------------------------------------------- program constants
\* totalMove > 2 marks the finger as moved            (handleTouchMove)
MoveThreshold == 2
\* totalMove > 15 before the timer fires aborts        (handleTouchMove)
JitterThreshold == 15
\* let nextTaskId = 1
InitialNextTaskId == 1
\* const maxRetries = 3
maxRetries == 3

\* 'Поздравление загружается...', the fallback of getGreetingForTask
Placeholder == "greeting-loading"

NoColumn == "none"

VARIABLES
    config,          \* the loaded configuration (chosen once, then read-only)
    tasks,           \* let tasks = []
    nextTaskId,      \* let nextTaskId = 1
    elems,           \* the card elements that exist: id -> element
    draggedTask,     \* let draggedTask = null      (task index, 0 = null)
    draggedElement,  \* let draggedElement = null   (element id, 0 = null)
    isDragging,      \* let isDragging = false
    hasMoved,        \* let hasMoved = false
    lastColumnOver,  \* let lastColumnOver = null   (column id, NoColumn = null)
    touchTimeout,    \* let touchTimeout = null     (timer id, 0 = null)
    timers,          \* pending setTimeout callbacks, oldest first
    touches,         \* fingers currently held down on a card
    dragOver,        \* columns whose .column-tasks carries class drag-over
    dragSource,      \* the card the native drag started on (element id)
    dndPhase,        \* the browser's native drag: "none", "drag", "dropped"
    last             \* what the most recent event handler did

vars == <<config, tasks, nextTaskId, elems, draggedTask, draggedElement,
          isDragging, hasMoved, lastColumnOver, touchTimeout, timers,
          touches, dragOver, dragSource, dndPhase, last>>

\* ------------------------------------------------------------ configuration
\* column.effect of a column that configures none
NoEffect == ""

ColFx(id, final, mode, has, list, effect) ==
    [id |-> id, isFinal |-> final, assigneeMode |-> mode,
     hasAssignees |-> has, assignees |-> list, effect |-> effect]

Col(id, final, mode, has, list) == ColFx(id, final, mode, has, list, NoEffect)

NoPool == [kind |-> "none", flat |-> <<>>, perTeam |-> <<>>]
FlatPool(s) == [kind |-> "flat", flat |-> s, perTeam |-> <<>>]
TeamPool(f) == [kind |-> "perTeam", flat |-> <<>>, perTeam |-> f]

Seed(id, col, team) == [id |-> id, columnId |-> col, teamId |-> team]

\* The scenario of the specification: backlog, doing, production{isFinal},
\* one seed task in backlog.
ScenarioConfig ==
    [teams |-> <<"t1", "t2">>,
     columns |-> << Col("backlog", FALSE, "random", FALSE, <<>>),
                    Col("doing", FALSE, "fixed", TRUE, <<"t1">>),
                    Col("production", TRUE, "random", FALSE, <<>>) >>,
     greetings |-> [backlog |-> FlatPool(<<"g1">>)],
     initialTasks |-> << Seed(1, "backlog", "t1") >>]

\* Three teams, so that a list of several assignees is a proper subset.
ListConfig ==
    [teams |-> <<"t1", "t2", "t3">>,
     columns |-> << Col("backlog", FALSE, "fixed", TRUE, <<>>),
                    Col("doing", FALSE, "fixed", TRUE, <<"t2", "t3">>),
                    Col("review", FALSE, "random", TRUE, <<"t1">>),
                    Col("production", TRUE, "fixed", TRUE, <<"t3">>) >>,
     greetings |-> [backlog |-> FlatPool(<<"g1", "g2">>),
                    doing |-> TeamPool([t2 |-> <<"d2">>])],
     initialTasks |-> << Seed(4, "doing", "t2"), Seed(2, "production", "t3") >>]

\* A board without a column whose id is 'backlog'.
NoBacklogConfig ==
    [teams |-> <<"t1", "t2">>,
     columns |-> << Col("todo", FALSE, "random", FALSE, <<>>),
                    Col("production", TRUE, "fixed", TRUE, <<"t2">>) >>,
     greetings |-> [todo |-> FlatPool(<<"g1">>)],
     initialTasks |-> << Seed(1, "todo", "t1") >>]

\* A backlog column that lists its one assignee.
PinnedBacklogConfig ==
    [teams |-> <<"t1", "t2">>,
     columns |-> << Col("backlog", FALSE, "fixed", TRUE, <<"t1">>),
                    Col("production", TRUE, "random", FALSE, <<>>) >>,
     greetings |-> [backlog |-> NoPool],
     initialTasks |-> << Seed(1, "backlog", "t1") >>]

\* Columns with effects: none, "random", a registered name, a name that is
\* no key of the registry and no property of Object.prototype, a name that
\* is a property of Object.prototype, and a final column with an effect.
EffectsConfig ==
    [teams |-> <<"t1">>,
     columns |-> << ColFx("backlog", FALSE, "random", FALSE, <<>>, NoEffect),
                    ColFx("doing", FALSE, "random", FALSE, <<>>, "random"),
                    ColFx("review", FALSE, "random", FALSE, <<>>, "shake"),
                    ColFx("qa", FALSE, "random", FALSE, <<>>, "sparkle"),
                    ColFx("audit", FALSE, "random", FALSE, <<>>, "valueOf"),
                    ColFx("production", TRUE, "random", FALSE, <<>>, "glow") >>,
     greetings |-> [backlog |-> NoPool],
     initialTasks |-> << Seed(1, "backlog", "t1") >>]

\* A column that is not final with a registered effect and two greetings.
ShakeConfig ==
    [teams |-> <<"t1", "t2">>,
     columns |-> << ColFx("backlog", FALSE, "random", FALSE, <<>>, NoEffect),
                    ColFx("review", FALSE, "random", FALSE, <<>>, "shake"),
                    ColFx("production", TRUE, "random", FALSE, <<>>, "glow") >>,
     greetings |-> [backlog |-> FlatPool(<<"g1">>),
                    review |-> FlatPool(<<"g2", "g3">>)],
     initialTasks |-> << Seed(1, "backlog", "t1") >>]

\* Greeting pools of every shape: flat, per team, empty, missing.
GreetingConfig ==
    [teams |-> <<"t1", "t2">>,
     columns |-> << Col("backlog", FALSE, "random", FALSE, <<>>),
                    Col("doing", FALSE, "random", FALSE, <<>>),
                    Col("review", FALSE, "random", FALSE, <<>>),
                    Col("production", TRUE, "random", FALSE, <<>>) >>,
     greetings |-> [backlog |-> FlatPool(<<"g1", "g2", "g3">>),
                    doing |-> TeamPool([t1 |-> <<"d1", "d2">>, t2 |-> <<>>]),
                    review |-> FlatPool(<<>>)],
     initialTasks |-> << Seed(1, "backlog", "t1") >>]

GreetingConfigs == {GreetingConfig, ListConfig, ScenarioConfig}

EngineConfigs == {ScenarioConfig, ListConfig, NoBacklogConfig,
                  PinnedBacklogConfig}
GestureConfigs == {ScenarioConfig}

ColumnIds == {config.columns[i].id : i \in 1..Len(config.columns)}
TeamIds == {config.teams[i] : i \in 1..Len(config.teams)}

\* ------------------------------------------------------------ domain model
\* Math.floor(Math.random() * len): an index of a JS array of length len,
\* shifted to the 1-based indices of a sequence.
RandomIndex(len) == 1..len

\* config.columns.find(c => c.id === columnId): the first match
getColumnById(columnId) ==
    LET hits == {i \in 1..Len(config.columns) : config.columns[i].id = columnId}
    IN config.columns[CHOOSE i \in hits : \A j \in hits : i <= j]

\* the teams getRandomTeam() may return
getRandomTeam == {config.teams[i] : i \in RandomIndex(Len(config.teams))}

\* the value undefined
Undefined == "undefined"

\* array[Math.floor(Math.random() * array.length)]: a member of the array,
\* and array[0], which is undefined, when the array is empty
PickFrom(array) ==
    IF Len(array) = 0 THEN {Undefined}
    ELSE {array[i] : i \in RandomIndex(Len(array))}

\* the values getGreetingForTask(columnId, teamId) may return (a column id
\* that names a property config.greetings inherits from Object.prototype
\* finds a value that is neither an array nor an object with an array for the
\* team, and ends at the placeholder like a column without a pool)
getGreetingForTask(columnId, teamId) ==
    IF columnId \notin DOMAIN config.greetings THEN {Placeholder}
    ELSE LET g == config.greetings[columnId] IN
         IF g.kind = "flat" THEN PickFrom(g.flat)
         ELSE IF g.kind = "perTeam" /\ teamId \in DOMAIN g.perTeam
              THEN PickFrom(g.perTeam[teamId])
              ELSE {Placeholder}

\* tasks.find(t => t.id === taskId): index of the first match, 0 = undefined
FindTask(ts, taskId) ==
    LET hits == {i \in 1..Len(ts) : ts[i].id = taskId}
    IN IF hits = {} THEN 0 ELSE CHOOSE i \in hits : \A j \in hits : i <= j

\* a plausible bug: nextTaskId follows the seed pushed last
SeedStepLast(prev, id) == id + 1

\* if (taskConfig.id >= nextTaskId) nextTaskId = taskConfig.id + 1
SeedStep(prev, id) == IF id >= prev THEN id + 1 ELSE prev

\* initializeTasks: the nextTaskId left after pushing the first n seed tasks
RECURSIVE SeedNextId(_, _)
SeedNextId(seeds, n) ==
    IF n = 0 THEN InitialNextTaskId
    ELSE SeedStep(SeedNextId(seeds, n - 1), seeds[n].id)

\* initializeTasks: the task pushed for one seed, description d
SeedTask(seed, d) ==
    [id |-> seed.id, columnId |-> seed.columnId, teamId |-> seed.teamId,
     description |-> d]

\* ------------------------------------------------------------ card elements
MaxElems == MaxTasks + MaxPending + 2

CleanStyle ==
    [classes |-> {}, position |-> "", zIndex |-> "", pointerEvents |-> "",
     visibility |-> "", leftTop |-> FALSE, width |-> FALSE,
     dragOffsetY |-> FALSE]

\* what the innerHTML of a card shows of its task, and the container the
\* card is appended to
Shown(task) ==
    [columnId |-> task.columnId, teamId |-> task.teamId,
     description |-> task.description]

\* createTaskElement(task): a fresh card; dataset.taskId = task.id
createTaskElement(task, inDocument) ==
    [taskId |-> task.id, attached |-> inDocument, style |-> CleanStyle,
     shown |-> Shown(task)]

TimerElems(tm) == {tm[k].elem : k \in 1..Len(tm)}

\* the card elements some closure, global or pending event still refers to
LiveRefs(S) ==
    ({S.draggedElement, S.dragSource} \cup TimerElems(S.timers)) \ {0}

NthFree(free, n) == CHOOSE x \in free : Cardinality({y \in free : y < x}) = n - 1

\* renderTasks: every container is emptied (the old cards leave the document;
\* those still referenced live on, detached) and one new card per task is
\* appended to the container of its column.  S.renders counts the calls;
\* S.stale says that the task list was written to since the last call.
renderTasks(S) ==
    LET kept == DOMAIN S.elems \cap LiveRefs(S)
        free == (1..(MaxElems + MaxTasks)) \ kept
        fresh == {NthFree(free, i) : i \in 1..Len(S.tasks)}
        taskOf(e) == CHOOSE i \in 1..Len(S.tasks) : NthFree(free, i) = e
    IN [S EXCEPT !.renders = @ + 1, !.stale = FALSE, !.elems =
          [e \in kept \cup fresh |->
              IF e \in fresh
              THEN createTaskElement(S.tasks[taskOf(e)],
                                     S.tasks[taskOf(e)].columnId \in ColumnIds)
              ELSE [S.elems[e] EXCEPT !.attached = FALSE]]]

\* ---------------------------------------------------------- effect dispatch
\* const ALL_EFFECTS = Object.keys(EFFECTS_LIBRARY)
ALL_EFFECTS ==
    << "shake", "pulse", "glow", "glitch", "bounce", "rotate", "flash",
       "rainbow", "zoom", "slide", "fade", "wave", "ripple", "spin", "swing",
       "jello", "wobble", "tada", "flip", "rubber-band", "heartbeat",
       "neon-glow", "confetti", "checkmarks", "sparkles", "hearts", "stars",
       "bubbles", "snow", "lightning", "fireworks" >>

\* the own properties of EFFECTS_LIBRARY
RegistryKeys == {ALL_EFFECTS[i] : i \in 1..Len(ALL_EFFECTS)}

\* Properties EFFECTS_LIBRARY, an object literal, inherits from
\* Object.prototype: functions that return when called with one string
\* argument and this undefined; functions that throw a TypeError when called
\* so (they convert this to an object); and __proto__, which is an object.
InheritedReturning == {"constructor", "toString", "isPrototypeOf"}
InheritedThrowing == {"hasOwnProperty", "valueOf", "propertyIsEnumerable",
                      "toLocaleString", "__defineGetter__", "__defineSetter__",
                      "__lookupGetter__", "__lookupSetter__"}
InheritedObject == {"__proto__"}

\* EFFECTS_LIBRARY[effectName] followed by if (effectFunction)
\* effectFunction(columnId): what the call does
EffectCall(effectName) ==
    IF effectName \in RegistryKeys THEN "effect"
    ELSE IF effectName \in InheritedReturning THEN "returns"
    ELSE IF effectName \in InheritedThrowing \cup InheritedObject THEN "throws"
    ELSE "warns"

\* a plausible bug: Math.round in place of Math.floor, an index past the end
RandomEffectOffByOne ==
    {ALL_EFFECTS[i] : i \in 1..Len(ALL_EFFECTS)} \cup {"undefined"}

\* ALL_EFFECTS[Math.floor(Math.random() * ALL_EFFECTS.length)]
RandomEffect == {ALL_EFFECTS[i] : i \in RandomIndex(Len(ALL_EFFECTS))}

\* the note S.fx takes of an effect started: by a direct call of showConfetti
\* or by showEffectForColumn calling the registry entry of a name
Celebration == [via |-> "showConfetti", name |-> "confetti"]
Dispatched(effectName) == [via |-> "registry", name |-> effectName]

\* a plausible bug: the celebration is left out
showConfettiSkipped(S) == S

\* showConfetti()
showConfetti(S) == [S EXCEPT !.fx = Append(@, Celebration)]

\* let effectName = column.effect; if (effectName === 'random') effectName =
\* the random pick
ResolveEffect(configured, pick) ==
    IF configured = "random" THEN pick ELSE configured

\* showEffectForColumn(columnId), the random pick drawn as given; S.threw
\* says that the call ended with an exception
showEffectForColumn(S, columnId, pick) ==
    LET column == getColumnById(columnId) IN
    IF column.effect = NoEffect THEN S
    ELSE LET effectName == ResolveEffect(column.effect, pick)
             does == EffectCall(effectName)
         IN IF does = "effect"
            THEN [S EXCEPT !.fx = Append(@, Dispatched(effectName))]
            ELSE IF does = "throws" THEN [S EXCEPT !.threw = TRUE]
            ELSE S

\* --------------------------------------------------- task movement engine
\* a plausible bug: the backlog column is taken to exist
HasBacklogAssumed == TRUE

\* const backlogColumn = config.columns.find(c => c.id === 'backlog')
HasBacklog == "backlog" \in ColumnIds

\* a plausible bug: the counter is read but not advanced
BumpTaskIdStuck(n) == n

\* id: nextTaskId++  -- the value nextTaskId holds afterwards
BumpTaskId(n) == n + 1

\* a plausible bug: the new task takes the place of the last one
createNewTaskReplacing(S, team, desc) ==
    IF ~HasBacklog THEN S
    ELSE LET newTask == [id |-> S.nextTaskId, columnId |-> "backlog",
                         teamId |-> team, description |-> desc]
         IN renderTasks([S EXCEPT !.tasks = [@ EXCEPT ![Len(@)] = newTask],
                                  !.nextTaskId = BumpTaskId(@),
                                  !.stale = TRUE])

\* createNewTaskInBacklog with the random team and greeting drawn as given
createNewTaskInBacklog(S, team, desc) ==
    IF ~HasBacklog THEN S
    ELSE LET newTask == [id |-> S.nextTaskId, columnId |-> "backlog",
                         teamId |-> team, description |-> desc]
         IN renderTasks([S EXCEPT !.tasks = Append(@, newTask),
                                  !.nextTaskId = BumpTaskId(@),
                                  !.stale = TRUE])

\* newColumn.assignees || []
AssigneesOf(column) == IF column.hasAssignees THEN column.assignees ELSE <<>>

\* a plausible bug: the column's assignee rules are ignored
ResolveAssigneeAnyTeam(column) == getRandomTeam

\* the teams the assignee rules of moveTask may give a task landing on column
ResolveAssignee(column) ==
    LET assignees == AssigneesOf(column) IN
    IF column.assigneeMode = "random" \/ Len(assignees) = 0
    THEN getRandomTeam
    ELSE IF Len(assignees) = 1 THEN {assignees[1]}
    ELSE {assignees[i] : i \in RandomIndex(Len(assignees))}

\* a plausible bug: the terminal-bypass branch is never taken
IsBypassNever(oldColumnId) == FALSE

\* if (oldColumn.isFinal): the terminal-bypass branch
IsBypass(oldColumnId) == getColumnById(oldColumnId).isFinal

\* a plausible bug: landing on the final column replenishes nothing
LandsOnFinalNever(newColumnId) == FALSE

\* a plausible bug: every landing replenishes the backlog
LandsOnFinalAlways(newColumnId) == TRUE

\* if (newColumn.isFinal): confetti and a new backlog task
LandsOnFinal(newColumnId) == getColumnById(newColumnId).isFinal

\* a plausible bug: the final column's own effect is played as well
DispatchesColumnEffectAlways(newColumnId) == TRUE

\* showEffectForColumn(newColumnId) is the else branch of
\* if (newColumn.isFinal)
DispatchesColumnEffect(newColumnId) == ~LandsOnFinal(newColumnId)

\* whether moveTask(_, newColumnId, oldColumnId) pushes a task
Spawns(newColumnId, oldColumnId) ==
    HasBacklog /\ (IsBypass(oldColumnId) \/ LandsOnFinal(newColumnId))

NoDraw == "-"
NoDraws == [team |-> NoDraw, desc |-> NoDraw,
            spawnTeam |-> NoDraw, spawnDesc |-> NoDraw, effect |-> NoDraw]

\* the random draws one moveTask(_, newColumnId, oldColumnId) call makes:
\* the assignee and the greeting of the moved task, the team and the
\* greeting of the spawned one, the effect picked for "random" (NoDraw where
\* the call draws nothing)
MoveChoices(newColumnId, oldColumnId) ==
    LET landing ==
            IF IsBypass(oldColumnId) THEN {<<NoDraw, NoDraw>>}
            ELSE UNION {{<<t, d>> : d \in getGreetingForTask(newColumnId, t)} :
                            t \in ResolveAssignee(getColumnById(newColumnId))}
        spawn ==
            IF ~Spawns(newColumnId, oldColumnId) THEN {<<NoDraw, NoDraw>>}
            ELSE UNION {{<<t, d>> : d \in getGreetingForTask("backlog", t)} :
                            t \in getRandomTeam}
        picks ==
            IF /\ ~IsBypass(oldColumnId)
               /\ DispatchesColumnEffect(newColumnId)
               /\ getColumnById(newColumnId).effect = "random"
            THEN RandomEffect ELSE {NoDraw}
    IN {[team |-> l[1], desc |-> l[2], spawnTeam |-> p[1], spawnDesc |-> p[2],
         effect |-> x] : l \in landing, p \in spawn, x \in picks}

\* what S.probe holds when the handler made no elementFromPoint probe
NoProbe == "no-probe"

\* the three assignments of moveTask to the task it found
Relocate(task, newColumnId, ch) ==
    [task EXCEPT !.columnId = newColumnId, !.teamId = ch.team,
                 !.description = ch.desc]

\* moveTask(taskId, newColumnId, oldColumnId) with the draws ch; S.log takes
\* a note of the call (the index of the task found, 0 if none).  An exception
\* thrown by showEffectForColumn ends the call before renderTasks.
moveTask(S, taskId, newColumnId, oldColumnId, ch) ==
    LET i == FindTask(S.tasks, taskId)
        S0 == [S EXCEPT !.log = Append(@, [task |-> i, to |-> newColumnId,
                                           from |-> oldColumnId])]
    IN
    IF i = 0 THEN S0
    ELSE IF IsBypass(oldColumnId)
    THEN showConfetti(createNewTaskInBacklog(S0, ch.spawnTeam, ch.spawnDesc))
    ELSE LET S1 == [S0 EXCEPT !.tasks[i] = Relocate(@, newColumnId, ch),
                              !.stale = TRUE]
             S2 == IF LandsOnFinal(newColumnId)
                   THEN createNewTaskInBacklog(showConfetti(S1), ch.spawnTeam,
                                               ch.spawnDesc)
                   ELSE S1
             S3 == IF DispatchesColumnEffect(newColumnId)
                   THEN showEffectForColumn(S2, newColumnId, ch.effect)
                   ELSE S2
         IN IF S3.threw THEN S3 ELSE renderTasks(S3)

\* ------------------------------------------------------------------- timers
\* setTimeout returns a handle no pending timer and no stored handle has
NewTimerId(S) ==
    1 + Len(S.timers) + (IF S.touchTimeout > 0 THEN S.touchTimeout ELSE 0)

\* clearTimeout(handle): null and the handles of fired timers are ignored
clearTimeout(tm, handle) == SelectSeq(tm, LAMBDA t : t.id # handle)

\* ------------------------------------------------------------------ styles
\* handleTouchMove, activation: the card is lifted out of the flow
LiftStyle(st) ==
    [st EXCEPT !.classes = @ \cup {"touch-dragging"}, !.position = "fixed",
               !.zIndex = "1000", !.pointerEvents = "none",
               !.width = TRUE, !.leftTop = TRUE, !.dragOffsetY = TRUE]

\* handleTouchMove while dragging: hidden for the probe, shown, repositioned
FollowStyle(st) == [st EXCEPT !.visibility = "visible", !.leftTop = TRUE]

\* cleanupDragState: what it does to draggedElement
RestoreStyle(st) ==
    [st EXCEPT !.classes = @ \ {"dragging", "touch-dragging"},
               !.position = "", !.zIndex = "", !.leftTop = FALSE,
               !.pointerEvents = "", !.visibility = "", !.width = FALSE,
               !.dragOffsetY = FALSE]

\* classList.add('dragging') / classList.remove('dragging')
AddDragging(st) == [st EXCEPT !.classes = @ \cup {"dragging"}]
RemoveDragging(st) == [st EXCEPT !.classes = @ \ {"dragging"}]

Styled(st, how) ==
    CASE how = "lift" -> LiftStyle(st)
      [] how = "follow" -> FollowStyle(st)
      [] how = "restore" -> RestoreStyle(st)
      [] how = "addDragging" -> AddDragging(st)
      [] how = "removeDragging" -> RemoveDragging(st)

\* the elements with the style of e changed (e may be null: if (draggedElement))
StyleAt(es, e, how) ==
    IF e \in DOMAIN es THEN [es EXCEPT ![e].style = Styled(@, how)] ELSE es

\* ------------------------------------------------------ touch recognizer
\* cards a finger or the mouse can land on: in the document and not
\* transparent to pointer events
Touchable(S) == {e \in DOMAIN S.elems : /\ S.elems[e].attached
                                        /\ S.elems[e].style.pointerEvents # "none"}

\* a plausible bug: the cleanup leaves the column highlight in place
cleanupKeepsHighlight(S) ==
    [S EXCEPT !.timers = IF S.touchTimeout # 0
                         THEN clearTimeout(@, S.touchTimeout) ELSE @,
              !.touchTimeout = 0,
              !.elems = StyleAt(@, S.draggedElement, "restore"),
              !.isDragging = FALSE,
              !.draggedTask = 0,
              !.draggedElement = 0,
              !.lastColumnOver = NoColumn,
              !.hasMoved = FALSE]

\* a plausible bug: the column highlight is toggled, not removed
cleanupTogglesHighlight(S) ==
    [cleanupKeepsHighlight(S) EXCEPT !.dragOver = ColumnIds \ @]

\* a plausible bug: the recorded column outlives the session
cleanupKeepsHover(S) ==
    [cleanupKeepsHighlight(S) EXCEPT !.lastColumnOver = S.lastColumnOver,
                                     !.dragOver = {}]

\* a plausible bug: the cleanup restores the card and forgets the session
cleanupKeepsSession(S) ==
    [S EXCEPT !.timers = IF S.touchTimeout # 0
                         THEN clearTimeout(@, S.touchTimeout) ELSE @,
              !.touchTimeout = 0,
              !.elems = StyleAt(@, S.draggedElement, "restore"),
              !.hasMoved = FALSE,
              !.dragOver = {}]

\* cleanupDragState
cleanupDragState(S) ==
    [S EXCEPT !.timers = IF S.touchTimeout # 0
                         THEN clearTimeout(@, S.touchTimeout) ELSE @,
              !.touchTimeout = 0,
              !.elems = StyleAt(@, S.draggedElement, "restore"),
              !.isDragging = FALSE,
              !.draggedTask = 0,
              !.draggedElement = 0,
              !.lastColumnOver = NoColumn,
              !.hasMoved = FALSE,
              !.dragOver = {}]

\* handleTouchStart on card e
handleTouchStart(S, e) ==
    [S EXCEPT !.hasMoved = FALSE,
              !.timers = Append(@, [id |-> NewTimerId(S),
                                    task |-> FindTask(S.tasks, S.elems[e].taskId),
                                    elem |-> e]),
              !.touchTimeout = NewTimerId(S)]

\* a plausible bug: the callback starts the drag itself
LongPressTimerStartsDrag(S, k) ==
    LET t == S.timers[k]
        S1 == [S EXCEPT !.timers = clearTimeout(@, t.id)]
    IN IF t.elem = 0 \/ t.task = 0 THEN S1
       ELSE [S1 EXCEPT !.draggedTask = t.task,
                       !.draggedElement = t.elem,
                       !.touchTimeout = 0,
                       !.isDragging = TRUE]

\* the callback handleTouchStart passed to setTimeout, k-th of the pending
LongPressTimer(S, k) ==
    LET t == S.timers[k]
        S1 == [S EXCEPT !.timers = clearTimeout(@, t.id)]
    IN IF t.elem = 0 \/ t.task = 0 THEN S1
       ELSE [S1 EXCEPT !.draggedTask = t.task,
                       !.draggedElement = t.elem,
                       !.touchTimeout = 0]

\* a plausible bug: the abort does not ask whether a drag is active
AbortsLongPressInDrag(S, totalMove) ==
    S.touchTimeout # 0 /\ totalMove > JitterThreshold

\* a plausible bug: the move before the timer fires is never too far
AbortsLongPressNever(S, totalMove) == FALSE

\* handleTouchMove: the conditions of its branches
\* if (!isDragging && draggedTask && draggedElement && hasMoved && !touchTimeout)
ActivatesDrag(S) ==
    /\ ~S.isDragging /\ S.draggedTask # 0 /\ S.draggedElement # 0
    /\ S.hasMoved /\ S.touchTimeout = 0

\* if (touchTimeout && !isDragging && totalMove > 15)
AbortsLongPress(S, totalMove) ==
    S.touchTimeout # 0 /\ ~S.isDragging /\ totalMove > JitterThreshold

FollowsDrag(S) == S.isDragging /\ S.draggedElement # 0

\* a plausible bug: a probe that finds no column forgets the recorded one
HoverUpdateForgets(prev, below) == below

\* if (columnTasks) lastColumnOver = columnTasks: the column recorded after a
\* probe that found the column below (NoColumn: none)
HoverUpdate(prev, below) == IF below = NoColumn THEN prev ELSE below

\* handleTouchMove with the finger totalMove from the press origin and the
\* column below found under it (NoColumn: none)
handleTouchMove(S, totalMove, below) ==
    LET S1 == [S EXCEPT !.hasMoved = @ \/ totalMove > MoveThreshold] IN
    IF ActivatesDrag(S1)
    THEN [S1 EXCEPT !.isDragging = TRUE,
                    !.elems = StyleAt(@, S1.draggedElement, "lift")]
    ELSE IF AbortsLongPress(S1, totalMove)
    THEN [S1 EXCEPT !.timers = clearTimeout(@, S1.touchTimeout),
                    !.touchTimeout = 0,
                    !.draggedTask = 0,
                    !.draggedElement = 0]
    ELSE IF FollowsDrag(S1)
    THEN [S1 EXCEPT !.elems = StyleAt(@, S1.draggedElement, "follow"),
                    !.dragOver = IF below = NoColumn THEN {} ELSE {below},
                    !.lastColumnOver = HoverUpdate(@, below),
                    !.probe = below]
    ELSE S1

\* handleTouchEnd: if (isDragging && draggedTask && draggedElement) and
\* if (columnTasks && columnTasks.dataset.columnId)
ReleaseMoves(S) ==
    /\ S.isDragging /\ S.draggedTask # 0 /\ S.draggedElement # 0
    /\ S.lastColumnOver # NoColumn

\* the touchcancel listener: if (isDragging && draggedTask && lastColumnOver)
\* and if (newColumnId && oldColumnId)
CancelMoves(S) ==
    S.isDragging /\ S.draggedTask # 0 /\ S.lastColumnOver # NoColumn

\* a plausible bug: the column passed as the source is the target
MoveDraggedFromTarget(S, newColumnId, ch) ==
    moveTask(S, S.tasks[S.draggedTask].id, newColumnId, newColumnId, ch)

\* moveTask(draggedTask.id, newColumnId, draggedTask.columnId)
MoveDragged(S, newColumnId, ch) ==
    moveTask(S, S.tasks[S.draggedTask].id, newColumnId,
             S.tasks[S.draggedTask].columnId, ch)

\* a plausible bug: a release outside a drag returns without cleaning up
handleTouchEndDragOnly(S, ch) ==
    IF ReleaseMoves(S)
    THEN cleanupDragState(MoveDragged(S, S.lastColumnOver, ch))
    ELSE IF S.isDragging THEN cleanupDragState(S) ELSE S

\* an exception thrown by moveTask ends the handler before cleanupDragState
handleTouchEnd(S, ch) ==
    LET S1 == [S EXCEPT !.timers = clearTimeout(@, S.touchTimeout)]
        S2 == IF ReleaseMoves(S1) THEN MoveDragged(S1, S1.lastColumnOver, ch)
              ELSE S1
    IN IF S2.threw THEN S2 ELSE cleanupDragState(S2)

\* a plausible bug: with no column recorded the listener drops the task on
\* the column it came from
handleTouchCancelFallsBack(S, ch) ==
    cleanupDragState(
        IF S.isDragging /\ S.draggedTask # 0
        THEN MoveDragged(S, IF S.lastColumnOver # NoColumn
                            THEN S.lastColumnOver
                            ELSE S.tasks[S.draggedTask].columnId, ch)
        ELSE S)

\* a plausible bug: the listener cleans up first and decides afterwards
handleTouchCancelCleanupFirst(S, ch) ==
    LET S1 == cleanupDragState(S)
    IN IF CancelMoves(S1) THEN MoveDragged(S1, S1.lastColumnOver, ch) ELSE S1

handleTouchCancel(S, ch) ==
    LET S2 == IF CancelMoves(S) THEN MoveDragged(S, S.lastColumnOver, ch)
              ELSE S
    IN IF S2.threw THEN S2 ELSE cleanupDragState(S2)

\* --------------------------------------------------------- desktop drag
handleDragStart(S, e) ==
    [S EXCEPT !.draggedTask = FindTask(S.tasks, S.elems[e].taskId),
              !.elems = StyleAt(@, e, "addDragging"),
              !.dragSource = e]

\* handleDragStart when the drag starts on the <img> inside a card (images
\* are draggable by default, and dragstart bubbles to the card's listener):
\* e.target is the image, which has no data-task-id, so parseInt gives NaN,
\* tasks.find finds no task and draggedTask is undefined; the class 'dragging'
\* goes to the image, of which the model keeps no style
handleDragStartOnImage(S) ==
    [S EXCEPT !.draggedTask = 0, !.dragSource = 0]

handleDragOver(S, c) == [S EXCEPT !.dragOver = @ \cup {c}]

\* dragleave bubbles: onContainer says e.target is the .column-tasks itself
handleDragLeave(S, c, onContainer) ==
    IF onContainer THEN [S EXCEPT !.dragOver = @ \ {c}] ELSE S

DropMoves(S) == S.draggedTask # 0

\* a plausible bug: a drop on the column the task is in is ignored
handleDropSkipsSameColumn(S, c, ch) ==
    LET S1 == [S EXCEPT !.dragOver = @ \ {c}]
    IN IF DropMoves(S1) /\ c # S1.tasks[S1.draggedTask].columnId
       THEN MoveDragged(S1, c, ch) ELSE S1

handleDrop(S, c, ch) ==
    LET S1 == [S EXCEPT !.dragOver = @ \ {c}]
    IN IF DropMoves(S1) THEN MoveDragged(S1, c, ch) ELSE S1

\* a plausible bug: dragend leaves the task reference for the next drop
handleDragEndKeepsTask(S) ==
    [S EXCEPT !.elems = StyleAt(@, S.dragSource, "removeDragging"),
              !.dragOver = {},
              !.dragSource = 0]

\* handleDragEnd; e.target is the card the drag started on
handleDragEnd(S) ==
    [S EXCEPT !.elems = StyleAt(@, S.dragSource, "removeDragging"),
              !.draggedTask = 0,
              !.dragOver = {},
              !.dragSource = 0]

\* ------------------------------------------------------------ detail view
\* a plausible bug: the click takes hold of the task as a press does
showTaskModalHoldsTask(S, i) ==
    [S EXCEPT !.modal = i, !.draggedTask = i]

\* showTaskModal(task), task the i-th of the task list: the modal is filled
\* in and shown; confetti if the task's column is final
showTaskModal(S, i) ==
    LET S1 == [S EXCEPT !.modal = i]
    IN IF getColumnById(S.tasks[i].columnId).isFinal THEN showConfetti(S1)
       ELSE S1

\* the click listener of the card's team badge; task is the task the card
\* was created for
handleBadgeClick(S, e) == showTaskModal(S, FindTask(S.tasks, S.elems[e].taskId))

\* ------------------------------------------------------ state and commit
Now ==
    [tasks |-> tasks, nextTaskId |-> nextTaskId, elems |-> elems,
     draggedTask |-> draggedTask, draggedElement |-> draggedElement,
     isDragging |-> isDragging, hasMoved |-> hasMoved,
     lastColumnOver |-> lastColumnOver, touchTimeout |-> touchTimeout,
     timers |-> timers, dragOver |-> dragOver, dragSource |-> dragSource,
     log |-> <<>>, probe |-> NoProbe, fx |-> <<>>, threw |-> FALSE,
     renders |-> 0, stale |-> FALSE, modal |-> 0]

\* Renumbering of the ids, which no handler can observe: the cards in the
\* document become 1..n in document order (one per task, in task order), the
\* detached cards still referenced follow in the order of their first
\* reference, unreferenced detached cards are dropped; pending timers are
\* numbered by position.
Canon(S) ==
    LET es == S.elems
        att == {e \in DOMAIN es : es[e].attached}
        refs == <<S.draggedElement, S.dragSource>>
                    \o [k \in 1..Len(S.timers) |-> S.timers[k].elem]
        det == {e \in DOMAIN es \ att : \E p \in 1..Len(refs) : refs[p] = e}
        first(e) == CHOOSE p \in 1..Len(refs) :
                        refs[p] = e /\ \A q \in 1..(p - 1) : refs[q] # e
        name(e) == IF e \in att THEN Cardinality({x \in att : x <= e})
                   ELSE IF e \in det
                   THEN Cardinality(att)
                        + Cardinality({x \in det : first(x) <= first(e)})
                   ELSE 0
        old(n) == CHOOSE e \in att \cup det : name(e) = n
        pos(h) == IF h = 0 THEN 0
                  ELSE IF \E k \in 1..Len(S.timers) : S.timers[k].id = h
                  THEN CHOOSE k \in 1..Len(S.timers) : S.timers[k].id = h
                  ELSE Len(S.timers) + 1
    IN [S EXCEPT
          !.elems = [n \in 1..Cardinality(att \cup det) |-> es[old(n)]],
          !.draggedElement = name(@),
          !.dragSource = name(@),
          !.timers = [k \in 1..Len(S.timers) |->
                         [id |-> k, task |-> S.timers[k].task,
                          elem |-> name(S.timers[k].elem)]],
          !.touchTimeout = pos(@)]

\* The handler of event ev took the state to R.  last is the ghost record of
\* it: the moveTask calls the handler made, the column its elementFromPoint
\* probe found (NoProbe when it made none), the effects it started, whether
\* it ended with an exception, its renderTasks calls, whether it wrote to the
\* task list after its last renderTasks call, the task it opened the detail
\* view for (0: none), and isDragging, the length of the task list and
\* nextTaskId as they were before it.
Commit(ev, R) ==
    \E C \in {Canon(R)} :
        /\ tasks' = C.tasks
        /\ nextTaskId' = C.nextTaskId
        /\ elems' = C.elems
        /\ draggedTask' = C.draggedTask
        /\ draggedElement' = C.draggedElement
        /\ isDragging' = C.isDragging
        /\ hasMoved' = C.hasMoved
        /\ lastColumnOver' = C.lastColumnOver
        /\ touchTimeout' = C.touchTimeout
        /\ timers' = C.timers
        /\ dragOver' = C.dragOver
        /\ dragSource' = C.dragSource
        /\ last' = [ev |-> ev, calls |-> C.log, probe |-> C.probe,
                    dragging |-> isDragging, fx |-> C.fx,
                    threw |-> C.threw, renders |-> C.renders,
                    stale |-> C.stale, modal |-> C.modal,
                    nBefore |-> Len(tasks), idBefore |-> nextTaskId]

\* ----------------------------------------------------------- initial state
\* loadConfig, then initializeApp: initializeTasks, createKanbanBoard
SeededTasks ==
    {ts \in [1..Len(config.initialTasks) ->
                UNION {{SeedTask(config.initialTasks[i], d) :
                          d \in getGreetingForTask(config.initialTasks[i].columnId,
                                                   config.initialTasks[i].teamId)} :
                       i \in 1..Len(config.initialTasks)}] :
        \A i \in 1..Len(config.initialTasks) :
            /\ ts[i].id = config.initialTasks[i].id
            /\ ts[i].columnId = config.initialTasks[i].columnId
            /\ ts[i].teamId = config.initialTasks[i].teamId
            /\ ts[i].description \in
                 getGreetingForTask(ts[i].columnId, ts[i].teamId)}

Blank(ts, id) ==
    [tasks |-> ts, nextTaskId |-> id, elems |-> <<>>,
     draggedTask |-> 0, draggedElement |-> 0, isDragging |-> FALSE,
     hasMoved |-> FALSE, lastColumnOver |-> NoColumn, touchTimeout |-> 0,
     timers |-> <<>>, dragOver |-> {}, dragSource |-> 0, log |-> <<>>,
     probe |-> NoProbe, fx |-> <<>>, threw |-> FALSE, renders |-> 0,
     stale |-> FALSE, modal |-> 0]

InitBoard(configs) ==
    /\ config \in configs
    /\ \E ts \in SeededTasks :
       \E C \in {Canon(renderTasks(Blank(ts,
                   SeedNextId(config.initialTasks, Len(config.initialTasks)))))} :
        /\ tasks = C.tasks
        /\ nextTaskId = C.nextTaskId
        /\ elems = C.elems
        /\ draggedTask = C.draggedTask
        /\ draggedElement = C.draggedElement
        /\ isDragging = C.isDragging
        /\ hasMoved = C.hasMoved
        /\ lastColumnOver = C.lastColumnOver
        /\ touchTimeout = C.touchTimeout
        /\ timers = C.timers
        /\ dragOver = C.dragOver
        /\ dragSource = C.dragSource
    /\ touches = 0
    /\ dndPhase = "none"

InitWith(configs) ==
    /\ InitBoard(configs)
    /\ last = [ev |-> "init", calls |-> <<>>, probe |-> NoProbe,
               dragging |-> FALSE, fx |-> <<>>, threw |-> FALSE,
               renders |-> 1, stale |-> FALSE, modal |-> 0,
               nBefore |-> Len(tasks),
               idBefore |-> nextTaskId]

Init == InitWith(GestureConfigs)
InitEngine == InitWith(EngineConfigs)

\* the board holds at most room tasks: a call that would push one more is
\* not explored
RoomFor(newColumnId, oldColumnId, room) ==
    Spawns(newColumnId, oldColumnId) => Len(tasks) < room

\* ------------------------------------------------- the engine on its own
\* moveTask as the recognizer calls it: for an existing task, from the column
\* the task is in, to a column of the board.
EngineMove(i, c) ==
    /\ RoomFor(c, tasks[i].columnId, MaxTasks)
    /\ \E ch \in MoveChoices(c, tasks[i].columnId) :
          Commit("drop", moveTask(Now, tasks[i].id, c, tasks[i].columnId, ch))
    /\ UNCHANGED <<config, touches, dndPhase>>

NextEngine == \E i \in 1..Len(tasks) : \E c \in ColumnIds : EngineMove(i, c)

SpecEngine == InitEngine /\ [][NextEngine]_vars

\* the engine on the configuration with effects and on the one without a
\* backlog column
InitEffects == InitWith({EffectsConfig, NoBacklogConfig})

SpecEffects == InitEffects /\ [][NextEngine]_vars

\* ------------------------------------------------ properties of the engine
\* The calls of moveTask the last handler made that found their task.
FoundCalls == {k \in 1..Len(last.calls) : last.calls[k].task # 0}

\* The configuration has a column whose id is 'backlog'.
BacklogConfigured == \E i \in 1..Len(config.columns) :
                         config.columns[i].id = "backlog"

SourceIsFinal(call) == getColumnById(call.from).isFinal
TargetIsFinal(call) == getColumnById(call.to).isFinal

\* The task list grew by exactly one task, a backlog task, at its end.
OneBacklogTaskAdded ==
    /\ Len(tasks) = last.nBefore + 1
    /\ tasks[Len(tasks)].columnId = "backlog"

\* C1: after a moveTask call whose source column is not final, the task is in
\* the target column and its team is: the one listed assignee when the target
\* is not in random mode and lists exactly one; one of the listed assignees
\* when it is not in random mode and lists several; some team of the
\* configuration when the mode is random or the list is empty or absent.
MoveAssignsByColumnRules ==
    \A k \in FoundCalls :
        LET call == last.calls[k]
            target == getColumnById(call.to)
            n == IF target.hasAssignees THEN Len(target.assignees) ELSE 0
            task == tasks[call.task]
        IN ~SourceIsFinal(call) =>
              /\ task.columnId = call.to
              /\ IF target.assigneeMode = "random" \/ n = 0
                 THEN task.teamId \in TeamIds
                 ELSE IF n = 1
                 THEN task.teamId = target.assignees[1]
                 ELSE \E j \in 1..n : task.teamId = target.assignees[j]

\* a task landed on a column that lists several assignees and got the second
MoveAssignsWitness ==
    /\ config = ListConfig
    /\ \E k \in FoundCalls :
          /\ last.calls[k].to = "doing"
          /\ last.calls[k].from = "doing"
          /\ tasks[last.calls[k].task].teamId = "t3"

SeedMaxId ==
    CHOOSE m \in {config.initialTasks[i].id : i \in 1..Len(config.initialTasks)} :
        \A i \in 1..Len(config.initialTasks) : config.initialTasks[i].id <= m

\* the scenario: one seed task in backlog, moved for the first time
ScenarioMove == config = ScenarioConfig /\ last.nBefore = 1

SpawnedAt == (Len(config.initialTasks) + 1)..Len(tasks)

\* C4: nextTaskId never decreases in a step and increases in a step that
\* spawns; the ids of the spawned tasks, in the order of their creation, are
\* strictly increasing and all above the largest seed id.
SpawnedIdsIncrease ==
    /\ nextTaskId >= last.idBefore
    /\ Len(tasks) > last.nBefore => nextTaskId > last.idBefore
    /\ \A i \in SpawnedAt :
          /\ tasks[i].id > SeedMaxId
          /\ \A j \in SpawnedAt : j < i => tasks[j].id < tasks[i].id

\* two tasks were spawned one after the other
SpawnedIdsWitness == Cardinality(SpawnedAt) = 2 /\ Len(tasks) > last.nBefore

\* C5: no two tasks of the task list share an id, and nextTaskId is greater
\* than the id of every task.
TaskIdsUnique ==
    /\ \A i, j \in 1..Len(tasks) : tasks[i].id = tasks[j].id => i = j
    /\ \A i \in 1..Len(tasks) : tasks[i].id < nextTaskId

\* seed ids out of order (4, then 2) and a task spawned after them
TaskIdsWitness ==
    /\ config = ListConfig
    /\ Len(tasks) = 3
    /\ tasks[3].id = 5

\* C14: in a configuration whose seed tasks and assignee lists name only
\* existing teams and columns, every task's teamId is a team of the
\* configuration and every task's columnId is a column of it.
TaskReferencesExist ==
    \A i \in 1..Len(tasks) :
        /\ tasks[i].teamId \in TeamIds
        /\ tasks[i].columnId \in ColumnIds

\* a spawned backlog task was moved on to another column
TaskReferencesWitness ==
    /\ config = ListConfig
    /\ Len(tasks) = 3
    /\ tasks[3].columnId = "review"
    /\ \E k \in FoundCalls : last.calls[k].task = 3

\* C15, as stated: every task in a column whose assigneeMode is not random
\* and whose assignee list is not empty has a teamId of that list, whether
\* it was seeded, moved or spawned there.
AssigneesConstrainColumn ==
    \A i \in 1..Len(tasks) :
        LET column == getColumnById(tasks[i].columnId)
            n == IF column.hasAssignees THEN Len(column.assignees) ELSE 0
        IN (column.assigneeMode # "random" /\ n > 0) =>
               \E j \in 1..n : tasks[i].teamId = column.assignees[j]

\* ------------------------------------------- getGreetingForTask on its own
\* the column ids and team ids the function is called with: those of the
\* configuration, one of neither, and a property name of Object.prototype
GreetingColumns == ColumnIds \cup {"archive", "constructor"}
GreetingTeams == TeamIds \cup {"t9", "toString"}

GreetingInput(c, t) == [ev |-> "input", columnId |-> c, teamId |-> t,
                        result |-> NoDraw]

InitGreeting ==
    /\ InitBoard(GreetingConfigs)
    /\ \E c \in GreetingColumns : \E t \in GreetingTeams :
          last = GreetingInput(c, t)

\* getGreetingForTask(last.columnId, last.teamId) is called
Greet ==
    /\ last.ev = "input"
    /\ \E d \in getGreetingForTask(last.columnId, last.teamId) :
          last' = [last EXCEPT !.ev = "greeting", !.result = d]
    /\ UNCHANGED <<config, tasks, nextTaskId, elems, draggedTask,
                   draggedElement, isDragging, hasMoved, lastColumnOver,
                   touchTimeout, timers, touches, dragOver, dragSource,
                   dndPhase>>

\* the next arguments
NextInput ==
    /\ last.ev = "greeting"
    /\ \E c \in GreetingColumns : \E t \in GreetingTeams :
          last' = GreetingInput(c, t)
    /\ UNCHANGED <<config, tasks, nextTaskId, elems, draggedTask,
                   draggedElement, isDragging, hasMoved, lastColumnOver,
                   touchTimeout, timers, touches, dragOver, dragSource,
                   dndPhase>>

NextGreeting == Greet \/ NextInput

SpecGreeting == InitGreeting /\ [][NextGreeting]_vars

\* the members of a pool
Members(pool) == {pool[i] : i \in 1..Len(pool)}

\* C20, as stated: getGreetingForTask returns a string for every column id
\* and team id: a member of the column's flat pool; a member of the team's
\* pool when the column has a per-team mapping with an entry for the team;
\* the placeholder when the column has no pool or the team has no entry.
GreetingIsString ==
    last.ev = "greeting" =>
        /\ last.result # Undefined
        /\ IF last.columnId \notin DOMAIN config.greetings
           THEN last.result = Placeholder
           ELSE LET g == config.greetings[last.columnId] IN
                IF g.kind = "flat" THEN last.result \in Members(g.flat)
                ELSE IF g.kind = "perTeam" /\ last.teamId \in DOMAIN g.perTeam
                THEN last.result \in Members(g.perTeam[last.teamId])
                ELSE last.result = Placeholder

\* ----------------------------------------------- properties of the effects
\* The calls of the last handler that took the non-bypass path onto a column
\* that is not final: the calls that reach showEffectForColumn.
DispatchingCalls ==
    {k \in FoundCalls : /\ ~SourceIsFinal(last.calls[k])
                        /\ ~TargetIsFinal(last.calls[k])}

ConfiguredEffect(call) == getColumnById(call.to).effect

\* C17: a non-bypass moveTask call onto a final column triggers the
\* completion celebration and does not dispatch the column's own effect;
\* onto a column that is not final it dispatches the column's configured
\* effect exactly once (for "random" one entry of the registry) when the name
\* is registered, and nothing when the column configures no effect.
EffectDecision ==
    \A k \in FoundCalls :
        LET call == last.calls[k]
            effect == ConfiguredEffect(call)
        IN ~SourceIsFinal(call) =>
              /\ TargetIsFinal(call) => last.fx = <<Celebration>>
              /\ (~TargetIsFinal(call) /\ effect = NoEffect) => last.fx = <<>>
              /\ (~TargetIsFinal(call) /\ effect \in RegistryKeys) =>
                     last.fx = <<Dispatched(effect)>>
              /\ (~TargetIsFinal(call) /\ effect = "random") =>
                     \E e \in RegistryKeys : last.fx = <<Dispatched(e)>>

\* a task landed on the final column, whose own effect is "glow"
EffectDecisionWitness ==
    /\ config = EffectsConfig
    /\ \E k \in FoundCalls :
          /\ last.calls[k].from = "review"
          /\ last.calls[k].to = "production"
          /\ ConfiguredEffect(last.calls[k]) = "glow"
    /\ last.fx = <<Celebration>>

\* C18: a dispatch of "random" invokes exactly one entry of the registry and
\* does not throw; and in every state, whatever was dispatched before, every
\* key of the registry is a possible outcome of the next dispatch of "random"
\* (for each key, one of the draws of the call dispatches it).
RandomDispatchResolves ==
    /\ \A k \in DispatchingCalls :
          ConfiguredEffect(last.calls[k]) = "random" =>
              /\ Len(last.fx) = 1
              /\ last.fx[1].via = "registry"
              /\ last.fx[1].name \in RegistryKeys
              /\ ~last.threw
    /\ \A i \in 1..Len(tasks) : \A c \in ColumnIds :
          (/\ ~getColumnById(tasks[i].columnId).isFinal
           /\ ~getColumnById(c).isFinal
           /\ getColumnById(c).effect = "random") =>
              \A e \in RegistryKeys :
                  \E ch \in MoveChoices(c, tasks[i].columnId) :
                      /\ ch.effect = e
                      /\ moveTask(Now, tasks[i].id, c, tasks[i].columnId,
                                  ch).fx = <<Dispatched(e)>>

\* "random" was dispatched for a task that a dispatch of "random" had brought
\* to the column, and gave the last key of the registry
RandomDispatchWitness ==
    /\ config = EffectsConfig
    /\ \E k \in DispatchingCalls :
          /\ last.calls[k].from = "doing"
          /\ last.calls[k].to = "doing"
    /\ last.fx = <<Dispatched("fireworks")>>

\* the configured name is neither absent, nor "random", nor a registry key
Unregistered(effect) == effect \notin RegistryKeys \cup {NoEffect, "random"}

\* C19, as stated: a moveTask call that dispatches an unregistered effect name
\* invokes no effect, does not throw and completes: the task is relocated,
\* the task list keeps its length and renderTasks is called.
UnregisteredEffectIsNoOp ==
    \A k \in DispatchingCalls :
        Unregistered(ConfiguredEffect(last.calls[k])) =>
            /\ last.fx = <<>>
            /\ ~last.threw
            /\ tasks[last.calls[k].task].columnId = last.calls[k].to
            /\ Len(tasks) = last.nBefore
            /\ last.renders >= 1

\* the cards in the document
Attached == {e \in DOMAIN elems : elems[e].attached}

\* The board shows the task list: one card in the document per task, with the
\* task's id, in the container of the task's column, showing the task's team
\* and description.
RenderedMatchesTasks ==
    /\ Cardinality(Attached) = Len(tasks)
    /\ \A i \in 1..Len(tasks) :
          \E e \in Attached : /\ elems[e].taskId = tasks[i].id
                              /\ elems[e].shown = Shown(tasks[i])

\* C21, as stated: a handler that writes to the task list calls renderTasks
\* after its last write and before it returns, so that after every event the
\* board shows the current task list.
RenderFollowsMutation ==
    /\ ~last.stale
    /\ RenderedMatchesTasks

\* the moveTask calls of the step that found their task
FoundCallsNext == {k \in 1..Len(last'.calls) : last'.calls[k].task # 0}

\* the tasks there were before the step are as they were
TasksKept == \A i \in 1..Len(tasks) : tasks'[i] = tasks[i]

\* C29: a moveTask call whose source column is final triggers the completion
\* celebration and nothing else, whatever the target column and the effect
\* it configures (none, "random", a registered or an unregistered name, or
\* the final column's own); it does not throw; every task there was keeps
\* its columnId, teamId and description, and the task list changes only by
\* the backlog task appended (by nothing when no column has id 'backlog').
BypassCelebratesOnly ==
    [][ \A k \in FoundCallsNext :
            SourceIsFinal(last'.calls[k]) =>
                /\ last'.fx = <<Celebration>>
                /\ ~last'.threw
                /\ TasksKept
                /\ IF BacklogConfigured
                   THEN /\ Len(tasks') = Len(tasks) + 1
                        /\ tasks'[Len(tasks')].columnId = "backlog"
                   ELSE Len(tasks') = Len(tasks)
      ]_vars

\* a task was dragged out of the final column onto a column whose effect
\* name would throw if it were dispatched
BypassCelebratesWitness ==
    /\ config = EffectsConfig
    /\ \E k \in FoundCalls :
          /\ last.calls[k].from = "production"
          /\ last.calls[k].to = "audit"
          /\ tasks[last.calls[k].task].columnId = "production"
    /\ last.fx = <<Celebration>>
    /\ Len(tasks) = last.nBefore + 1

\* C30: a moveTask call between two columns that are not final leaves the
\* number of tasks, nextTaskId, the id of every task and every field of
\* every task but the one moved as they were: all it may change is the
\* columnId, teamId and description of the task moved.
MoveTouchesOneTask ==
    [][ \A k \in FoundCallsNext :
            (~SourceIsFinal(last'.calls[k]) /\ ~TargetIsFinal(last'.calls[k])) =>
                /\ Len(tasks') = Len(tasks)
                /\ nextTaskId' = nextTaskId
                /\ \A i \in 1..Len(tasks) :
                      /\ tasks'[i].id = tasks[i].id
                      /\ i # last'.calls[k].task => tasks'[i] = tasks[i]
                /\ tasks'[last'.calls[k].task].columnId = last'.calls[k].to
      ]_vars

\* one of three tasks was moved from one column that is not final to another
\* and got another team
MoveTouchesOneWitness ==
    /\ config = ListConfig
    /\ Len(tasks) = 3
    /\ last.nBefore = 3
    /\ \E k \in FoundCalls :
          /\ last.calls[k].from = "backlog"
          /\ last.calls[k].to = "doing"
          /\ tasks[last.calls[k].task].teamId = "t3"

\* ------------------------------------------------------------ the events
\* The browser delivers touchmove, touchend and touchcancel to the card the
\* finger went down on, also after renderTasks took that card out of the
\* document; every card carries the same four listeners, so the handlers
\* need no more of a finger than that it is down.  A native drag and a touch
\* gesture are taken not to overlap: a finger goes down only while no native
\* drag is in progress, and a native drag starts only with no finger down
\* and no long-press callback pending.

\* the totalMove values handleTouchMove is tried on: around both thresholds
MoveSamples == {0, MoveThreshold, MoveThreshold + 1, JitterThreshold,
                JitterThreshold + 1}

\* what document.elementFromPoint(...).closest('.column-tasks') may find
Probes == ColumnIds \cup {NoColumn}

\* a finger lifted with no other finger down, its long-press timer pending
\* (and no other) and no movement beyond the threshold since it went down
IsTap == touches = 1 /\ Len(timers) = 1 /\ touchTimeout # 0 /\ ~hasMoved

\* the draws of a handler that calls moveTask for the dragged task when moves
\* holds, and the room the board must have for that call
DrawsFor(moves, to) ==
    IF moves THEN MoveChoices(to, tasks[draggedTask].columnId) ELSE {NoDraws}

RoomIf(moves, to) ==
    moves => RoomFor(to, tasks[draggedTask].columnId, MaxBoard)

TouchStart ==
    /\ dndPhase = "none"
    /\ touches < MaxTouches
    /\ Len(timers) < MaxPending
    /\ \E e \in Touchable(Now) : Commit("touchstart", handleTouchStart(Now, e))
    /\ touches' = touches + 1
    /\ UNCHANGED <<config, dndPhase>>

TimerFires ==
    /\ \E k \in 1..Len(timers) : Commit("timer", LongPressTimer(Now, k))
    /\ UNCHANGED <<config, touches, dndPhase>>

TouchMove ==
    /\ touches > 0
    /\ \E d \in MoveSamples : \E b \in Probes :
          Commit("touchmove", handleTouchMove(Now, d, b))
    /\ UNCHANGED <<config, touches, dndPhase>>

TouchEnd ==
    /\ touches > 0
    /\ RoomIf(ReleaseMoves(Now), lastColumnOver)
    /\ \E ch \in DrawsFor(ReleaseMoves(Now), lastColumnOver) :
          Commit(IF IsTap THEN "tap" ELSE "touchend", handleTouchEnd(Now, ch))
    /\ touches' = touches - 1
    /\ UNCHANGED <<config, dndPhase>>

TouchCancel ==
    /\ touches > 0
    /\ RoomIf(CancelMoves(Now), lastColumnOver)
    /\ \E ch \in DrawsFor(CancelMoves(Now), lastColumnOver) :
          Commit("touchcancel", handleTouchCancel(Now, ch))
    /\ touches' = touches - 1
    /\ UNCHANGED <<config, dndPhase>>

DragStart ==
    /\ dndPhase = "none"
    /\ touches = 0
    /\ timers = <<>>
    /\ \E e \in Touchable(Now) : Commit("dragstart", handleDragStart(Now, e))
    /\ dndPhase' = "drag"
    /\ UNCHANGED <<config, touches>>

DragOver ==
    /\ dndPhase = "drag"
    /\ \E c \in ColumnIds : Commit("dragover", handleDragOver(Now, c))
    /\ UNCHANGED <<config, touches, dndPhase>>

DragLeave ==
    /\ dndPhase = "drag"
    /\ \E c \in ColumnIds : \E b \in BOOLEAN :
          Commit("dragleave", handleDragLeave(Now, c, b))
    /\ UNCHANGED <<config, touches, dndPhase>>

\* the browser fires drop at most once in a drag operation
Drop ==
    /\ dndPhase = "drag"
    /\ \E c \in ColumnIds :
          /\ RoomIf(DropMoves(Now), c)
          /\ \E ch \in DrawsFor(DropMoves(Now), c) :
                Commit("drop", handleDrop(Now, c, ch))
    /\ dndPhase' = "dropped"
    /\ UNCHANGED <<config, touches>>

DragEnd ==
    /\ dndPhase \in {"drag", "dropped"}
    /\ Commit("dragend", handleDragEnd(Now))
    /\ dndPhase' = "none"
    /\ UNCHANGED <<config, touches>>

Next ==
    \/ TouchStart
    \/ TimerFires
    \/ TouchMove
    \/ TouchEnd
    \/ TouchCancel
    \/ DragStart
    \/ DragOver
    \/ DragLeave
    \/ Drop
    \/ DragEnd

Spec == Init /\ [][Next]_vars

\* ----------------------------------- the recognizer, one finger at a time
\* Gestures of one finger at a time, native drags, and clicks on the team
\* badge of a card in the document; the browser sends no click in the course
\* of a native drag.
PressAlone == touches = 0 /\ TouchStart

Click ==
    /\ dndPhase = "none"
    /\ \E e \in Touchable(Now) : Commit("click", handleBadgeClick(Now, e))
    /\ UNCHANGED <<config, touches, dndPhase>>

NextOneFinger ==
    \/ PressAlone
    \/ TimerFires
    \/ TouchMove
    \/ TouchEnd
    \/ TouchCancel
    \/ DragStart
    \/ DragOver
    \/ DragLeave
    \/ Drop
    \/ DragEnd
    \/ Click

SpecOneFinger == Init /\ [][NextOneFinger]_vars

\* ------------------------------- a touch gesture and a native drag at once
\* A device with a touch screen and a mouse, or a browser that starts a
\* native drag from a long press: the drag events of the columns and cards
\* arrive in any order with the touch events of one finger.  Both families of
\* handlers write draggedTask.
RoomHybrid(moves, to) ==
    moves => RoomFor(to, tasks[draggedTask].columnId, MaxBoard)

HybridPress ==
    /\ touches = 0
    /\ Len(timers) < MaxPending
    /\ \E e \in Touchable(Now) : Commit("touchstart", handleTouchStart(Now, e))
    /\ touches' = 1
    /\ UNCHANGED <<config, dndPhase>>

HybridRelease ==
    /\ touches > 0
    /\ RoomHybrid(ReleaseMoves(Now), lastColumnOver)
    /\ \E ch \in DrawsFor(ReleaseMoves(Now), lastColumnOver) :
          Commit(IF IsTap THEN "tap" ELSE "touchend", handleTouchEnd(Now, ch))
    /\ touches' = touches - 1
    /\ UNCHANGED <<config, dndPhase>>

HybridCancel ==
    /\ touches > 0
    /\ RoomHybrid(CancelMoves(Now), lastColumnOver)
    /\ \E ch \in DrawsFor(CancelMoves(Now), lastColumnOver) :
          Commit("touchcancel", handleTouchCancel(Now, ch))
    /\ touches' = touches - 1
    /\ UNCHANGED <<config, dndPhase>>

HybridDragStart ==
    /\ dndPhase = "none"
    /\ \E e \in Touchable(Now) : Commit("dragstart", handleDragStart(Now, e))
    /\ dndPhase' = "drag"
    /\ UNCHANGED <<config, touches>>

HybridDrop ==
    /\ dndPhase = "drag"
    /\ \E c \in ColumnIds :
          /\ RoomHybrid(DropMoves(Now), c)
          /\ \E ch \in DrawsFor(DropMoves(Now), c) :
                Commit("drop", handleDrop(Now, c, ch))
    /\ dndPhase' = "dropped"
    /\ UNCHANGED <<config, touches>>

NextHybrid ==
    \/ HybridPress
    \/ TimerFires
    \/ TouchMove
    \/ HybridRelease
    \/ HybridCancel
    \/ HybridDragStart
    \/ DragOver
    \/ DragLeave
    \/ HybridDrop
    \/ DragEnd

\* the scenario board, and a board whose final column yields no new task
InitHybrid == InitWith({ScenarioConfig, NoBacklogConfig})

SpecHybrid == InitHybrid /\ [][NextHybrid]_vars

\* ------------------------------------------------------ native drags only
\* Drags with the mouse and nothing else: of a card, or of the image inside a
\* card, over and onto the columns of the scenario board and of a board
\* with a column effect.
RoomDesktop(moves, to) ==
    moves => RoomFor(to, tasks[draggedTask].columnId, MaxDesktopBoard)

DragImage ==
    /\ dndPhase = "none"
    /\ touches = 0
    /\ timers = <<>>
    /\ Touchable(Now) # {}
    /\ Commit("dragstart", handleDragStartOnImage(Now))
    /\ dndPhase' = "drag"
    /\ UNCHANGED <<config, touches>>

DesktopDrop ==
    /\ dndPhase = "drag"
    /\ \E c \in ColumnIds :
          /\ RoomDesktop(DropMoves(Now), c)
          /\ \E ch \in DrawsFor(DropMoves(Now), c) :
                Commit("drop", handleDrop(Now, c, ch))
    /\ dndPhase' = "dropped"
    /\ UNCHANGED <<config, touches>>

NextDesktop ==
    \/ DragStart
    \/ DragImage
    \/ DragOver
    \/ DragLeave
    \/ DesktopDrop
    \/ DragEnd

InitDesktop == InitWith({ScenarioConfig, ShakeConfig})

SpecDesktop == InitDesktop /\ [][NextDesktop]_vars

\* -------------------------------------------------- loading the configuration
\* The DOMContentLoaded listener: await loadConfig(); initializeApp().  The
\* position of the listener and of loadConfig is kept in last: pc ("parsed":
\* the script has run and the event is still to come; "fetching": at await
\* fetch; "reading": at await response.json(); "waiting": at the await of the
\* backoff; "loaded": loadConfig has returned; "raised": it has thrown;
\* "skipped": initializeApp returned at if (!config); "initialized"), the
\* attempt of the loop, and counts of the fetch calls, of the runs of
\* initializeTasks and of the alerts.  timers holds the pending setTimeout
\* callbacks: the abort of an attempt's controller and the backoff.

\* let config = null
NoConfig == [null |-> TRUE]

\* what config.json may parse to: a configuration, or null
JsonValues == EngineConfigs \cup {ShakeConfig, NoConfig}

AbortTimer(attempt) == [kind |-> "abort", attempt |-> attempt]
BackoffTimer(attempt) == [kind |-> "backoff", attempt |-> attempt]

RemoveAt(seq, k) == [j \in 1..(Len(seq) - 1) |-> IF j < k THEN seq[j] ELSE seq[j + 1]]

\* clearTimeout(timeoutId) of the attempt's abort timer
clearAbort(tm, attempt) ==
    IF \E k \in 1..Len(tm) : tm[k] = AbortTimer(attempt)
    THEN RemoveAt(tm, CHOOSE k \in 1..Len(tm) : tm[k] = AbortTimer(attempt))
    ELSE tm

\* the loader: the pending timers and the position
Loader == [timers |-> timers, ctl |-> last]

\* the body of the loop up to await fetch(...): a controller, its abort timer,
\* the request
beginAttempt(L, attempt, ev) ==
    [timers |-> Append(L.timers, AbortTimer(attempt)),
     ctl |-> [L.ctl EXCEPT !.ev = ev, !.pc = "fetching", !.attempt = attempt,
                           !.fetches = @ + 1]]

\* the catch block: alert and rethrow on the last attempt, else the backoff
catchError(L, ev) ==
    IF L.ctl.attempt = maxRetries
    THEN [L EXCEPT !.ctl.ev = ev, !.ctl.pc = "raised", !.ctl.alerts = @ + 1]
    ELSE [timers |-> Append(L.timers, BackoffTimer(L.ctl.attempt)),
          ctl |-> [L.ctl EXCEPT !.ev = ev, !.pc = "waiting"]]

BoardFrame ==
    UNCHANGED <<tasks, nextTaskId, elems, draggedTask, draggedElement,
                isDragging, hasMoved, lastColumnOver, touchTimeout, touches,
                dragOver, dragSource, dndPhase>>

LoaderStep(L) == timers' = L.timers /\ last' = L.ctl

InitLoad ==
    /\ config = NoConfig
    /\ tasks = <<>>
    /\ nextTaskId = InitialNextTaskId
    /\ elems = <<>>
    /\ draggedTask = 0
    /\ draggedElement = 0
    /\ isDragging = FALSE
    /\ hasMoved = FALSE
    /\ lastColumnOver = NoColumn
    /\ touchTimeout = 0
    /\ timers = <<>>
    /\ touches = 0
    /\ dragOver = {}
    /\ dragSource = 0
    /\ dndPhase = "none"
    /\ last = [ev |-> "script", pc |-> "parsed", attempt |-> 0, fetches |-> 0,
               inits |-> 0, alerts |-> 0]

\* the event: loadConfig runs up to the first await
DOMContentLoaded ==
    /\ last.pc = "parsed"
    /\ LoaderStep(beginAttempt(Loader, 1, "DOMContentLoaded"))
    /\ BoardFrame
    /\ UNCHANGED config

\* fetch resolves with a response: clearTimeout, then throw if (!response.ok),
\* else response.json() is called
FetchResolves ==
    /\ last.pc = "fetching"
    /\ \E ok \in BOOLEAN :
          LET L == [Loader EXCEPT !.timers = clearAbort(@, last.attempt)] IN
          IF ok THEN LoaderStep([L EXCEPT !.ctl.ev = "response",
                                          !.ctl.pc = "reading"])
          ELSE LoaderStep(catchError(L, "http-error"))
    /\ BoardFrame
    /\ UNCHANGED config

\* fetch rejects with a network error: the abort timer stays pending
FetchRejects ==
    /\ last.pc = "fetching"
    /\ LoaderStep(catchError(Loader, "network-error"))
    /\ BoardFrame
    /\ UNCHANGED config

\* a pending timer fires.  The abort of the controller of the attempt whose
\* fetch is pending rejects it; the abort of a controller whose fetch has
\* settled does nothing; the backoff starts the next attempt.
LoadTimerFires ==
    /\ \E k \in 1..Len(timers) :
          LET t == timers[k]
              L == [Loader EXCEPT !.timers = RemoveAt(@, k)]
          IN IF t.kind = "backoff"
             THEN LoaderStep(beginAttempt(L, last.attempt + 1, "backoff"))
             ELSE IF last.pc = "fetching" /\ t.attempt = last.attempt
             THEN LoaderStep(catchError(L, "timeout"))
             ELSE LoaderStep([L EXCEPT !.ctl.ev = "stale-abort"])
    /\ BoardFrame
    /\ UNCHANGED config

\* response.json() resolves: config = the value; return
BodyParsed ==
    /\ last.pc = "reading"
    /\ config' \in JsonValues
    /\ LoaderStep([Loader EXCEPT !.ctl.ev = "json", !.ctl.pc = "loaded"])
    /\ BoardFrame

\* response.json() rejects: the body is no JSON, or the connection broke
BodyFails ==
    /\ last.pc = "reading"
    /\ LoaderStep(catchError(Loader, "json-error"))
    /\ BoardFrame
    /\ UNCHANGED config

\* the listener goes on after await loadConfig(): initializeApp()
InitializeApp ==
    /\ last.pc = "loaded"
    /\ IF config = NoConfig
       THEN /\ last' = [last EXCEPT !.ev = "initializeApp", !.pc = "skipped"]
            /\ UNCHANGED <<tasks, nextTaskId, elems>>
       ELSE /\ \E ts \in SeededTasks :
               \E C \in {Canon(renderTasks(Blank(tasks \o ts,
                           SeedNextId(config.initialTasks,
                                      Len(config.initialTasks)))))} :
                  /\ tasks' = C.tasks
                  /\ nextTaskId' = C.nextTaskId
                  /\ elems' = C.elems
            /\ last' = [last EXCEPT !.ev = "initializeApp",
                                    !.pc = "initialized", !.inits = @ + 1]
    /\ UNCHANGED <<config, timers, draggedTask, draggedElement, isDragging,
                   hasMoved, lastColumnOver, touchTimeout, touches, dragOver,
                   dragSource, dndPhase>>

NextLoad ==
    \/ DOMContentLoaded
    \/ FetchResolves
    \/ FetchRejects
    \/ LoadTimerFires
    \/ BodyParsed
    \/ BodyFails
    \/ InitializeApp

SpecLoad == InitLoad /\ [][NextLoad]_vars

\* The event is dispatched, a pending timer fires, and the listener goes on
\* after its await; when the network answers, if ever, is up to the network.
FairSpecLoad ==
    /\ SpecLoad
    /\ WF_vars(DOMContentLoaded)
    /\ WF_vars(LoadTimerFires)
    /\ WF_vars(InitializeApp)

\* ---------------------------------------------- properties of the recognizer
\* The recognizer's Idle: no drag session, no task or card held, no timer
\* handle stored.
Idle ==
    /\ ~isDragging
    /\ draggedTask = 0
    /\ draggedElement = 0
    /\ lastColumnOver = NoColumn
    /\ touchTimeout = 0

\* The recognizer is Dragging with a hover column recorded.
DraggingOverColumn == isDragging /\ lastColumnOver # NoColumn

\* C6: a release or cancel handled while Dragging with a hover column
\* recorded calls moveTask exactly once, for the dragged task, and ends the
\* session, so that the release or cancel that follows it calls moveTask no
\* more: handled in any other state they make no call.  A drop event of a
\* native drag calls moveTask exactly once, for the task the drag started on.
OneMovePerDrop ==
    [][ /\ last'.ev \in {"tap", "touchend", "touchcancel"} =>
              /\ Len(last'.calls) = IF DraggingOverColumn THEN 1 ELSE 0
              /\ \A k \in 1..Len(last'.calls) :
                     last'.calls[k].task = draggedTask
              /\ ~DraggingOverColumn'
        /\ last'.ev = "drop" =>
              /\ Len(last'.calls) = 1
              /\ last'.calls[1].task = draggedTask
              /\ draggedTask # 0
      ]_vars

\* a cancel completed the drop while a second finger was still down: its
\* release is still to come
OneMoveWitness ==
    /\ last.ev = "touchcancel"
    /\ Len(last.calls) = 1
    /\ touches = 1

\* C7: a cancel handled while Dragging with a hover column recorded calls
\* moveTask for the dragged task with the recorded column as target and the
\* task's column as source; the call takes effect (the task is relocated, or
\* replaced in the backlog when it came from the final column), and the
\* session is cleaned up afterwards.
CancelCompletesDrop ==
    [][ (last'.ev = "touchcancel" /\ DraggingOverColumn) =>
            /\ Len(last'.calls) = 1
            /\ last'.calls[1] = [task |-> draggedTask, to |-> lastColumnOver,
                                 from |-> tasks[draggedTask].columnId]
            /\ draggedTask # 0
            /\ IF getColumnById(tasks[draggedTask].columnId).isFinal
               THEN Len(tasks') = Len(tasks) + 1
               ELSE tasks'[draggedTask].columnId = lastColumnOver
            /\ Idle'
            /\ ~hasMoved'
      ]_vars

\* a cancel carried the dragged task from backlog to doing
CancelWitness ==
    /\ last.ev = "touchcancel"
    /\ Len(last.calls) = 1
    /\ last.calls[1].from = "backlog"
    /\ last.calls[1].to = "doing"
    /\ tasks[last.calls[1].task].columnId = "doing"

ReleaseTargetsLastHover ==
    [][ /\ ~isDragging' => lastColumnOver' = NoColumn
        /\ (isDragging /\ last'.probe \in ColumnIds) =>
               lastColumnOver' = last'.probe
        /\ (isDragging /\ last'.probe \notin ColumnIds
                /\ last'.ev \notin {"tap", "touchend", "touchcancel"}) =>
               lastColumnOver' = lastColumnOver
        /\ (isDragging /\ last'.ev = "touchend") =>
               /\ last'.probe = NoProbe
               /\ \A k \in 1..Len(last'.calls) :
                      last'.calls[k].to = lastColumnOver
               /\ lastColumnOver # NoColumn => Len(last'.calls) = 1
      ]_vars

\* a release moved the task to the column recorded by a move event of the
\* drag
LastHoverWitness ==
    /\ last.ev = "touchend"
    /\ last.dragging
    /\ Len(last.calls) = 1
    /\ last.calls[1].to = "doing"
    /\ tasks[last.calls[1].task].columnId = "doing"

\* C12: a release or a cancel handled while Dragging with no hover column
\* recorded calls moveTask not at all and leaves the task list as it was, and
\* the recognizer is Idle afterwards.
NoHoverNoMove ==
    [][ (last'.ev \in {"touchend", "touchcancel"} /\ isDragging
             /\ lastColumnOver = NoColumn) =>
            /\ last'.calls = <<>>
            /\ tasks' = tasks
            /\ nextTaskId' = nextTaskId
            /\ Idle'
      ]_vars

\* a cancel ended a drag that had recorded no column
NoHoverWitness ==
    /\ last.ev = "touchcancel"
    /\ last.dragging
    /\ last.calls = <<>>
    /\ Idle

TasksPersist ==
    [][ /\ Len(tasks') >= Len(tasks)
        /\ \A i \in 1..Len(tasks) : tasks'[i].id = tasks[i].id
      ]_vars

\* a release spawned a task and the task dragged is still there
TasksPersistWitness ==
    /\ last.ev = "touchend"
    /\ last.nBefore = 1
    /\ Len(tasks) = 2
    /\ tasks[1].id = 1
    /\ tasks[1].columnId = "production"

\* a card carries drag visuals: fixed positioning, elevation,
\* pointer-transparency, hidden visibility or a drag class
HasDragVisuals(e) ==
    \/ elems[e].style.position = "fixed"
    \/ elems[e].style.zIndex # ""
    \/ elems[e].style.pointerEvents = "none"
    \/ elems[e].style.visibility = "hidden"
    \/ elems[e].style.classes # {}

\* the cards in the document that carry drag visuals
CardsInDrag == {e \in DOMAIN elems : elems[e].attached /\ HasDragVisuals(e)}

\* C9, as stated: whenever the recognizer is Idle -- here with no finger
\* down, no callback pending and no native drag in progress either -- no card
\* in the document carries drag visuals.
IdleRestoresVisuals ==
    (Idle /\ touches = 0 /\ timers = <<>> /\ dndPhase = "none")
        => CardsInDrag = {}

\* C10, as stated: in every reachable state at most one card in the document
\* carries drag visuals.
OneCardInDrag == Cardinality(CardsInDrag) <= 1

\* C22: a click on a card's team badge opens the detail view for the card's
\* task and does nothing else: it calls moveTask not at all, and the task
\* list, nextTaskId, the cards and the drag session (isDragging, draggedTask,
\* draggedElement, lastColumnOver, hasMoved, the timer handle and the pending
\* callbacks) are as they were, whatever the state the click arrives in.
ClickOnlyOpensModal ==
    [][ last'.ev = "click" =>
            /\ last'.modal \in 1..Len(tasks)
            /\ last'.calls = <<>>
            /\ tasks' = tasks
            /\ nextTaskId' = nextTaskId
            /\ elems' = elems
            /\ isDragging' = isDragging
            /\ draggedTask' = draggedTask
            /\ draggedElement' = draggedElement
            /\ lastColumnOver' = lastColumnOver
            /\ hasMoved' = hasMoved
            /\ touchTimeout' = touchTimeout
            /\ timers' = timers
      ]_vars

\* a click opened the detail view of a task in the final column while the
\* timer of a press was pending
ClickWitness ==
    /\ last.ev = "click"
    /\ last.modal # 0
    /\ tasks[last.modal].columnId = "production"
    /\ last.fx = <<Celebration>>
    /\ touchTimeout # 0
    /\ draggedTask = 0

\* a release or cancel, or the move event that aborts a pending long press
EndsGesture ==
    \/ last'.ev \in {"tap", "touchend", "touchcancel"}
    \/ last'.ev = "touchmove" /\ touchTimeout # 0 /\ touchTimeout' = 0

\* C25, as stated: once a gesture has ended by release, cancel or jitter-abort
\* no callback started before that point is left to fire, in every ordering
\* of the events with up to two fingers: no callback is pending after such an
\* event, and a callback never takes hold of a task with no finger down.
NoStaleCallback ==
    [][ /\ EndsGesture => timers' = <<>>
        /\ (last'.ev = "timer" /\ touches = 0) =>
               /\ draggedTask' = draggedTask
               /\ draggedElement' = draggedElement
      ]_vars

\* the session of an active drag refers to the same task and the same card
\* after the step as before it
SessionKept ==
    /\ isDragging'
    /\ draggedTask' = draggedTask
    /\ draggedElement' # 0
    /\ elems'[draggedElement'] = elems[draggedElement]
    /\ lastColumnOver' = lastColumnOver

\* C26, as stated: a press handled while Dragging, and the callback of the
\* timer that press started (the handle stored while Dragging is that of
\* such a press, activation needing none stored), leave the drag session
\* with the task and the card it referred to.
PressWhileDraggingIgnored ==
    [][ /\ (isDragging /\ last'.ev = "touchstart") => SessionKept
        /\ (isDragging /\ last'.ev = "timer" /\ Len(timers) = 1
                /\ touchTimeout = 1) => SessionKept
      ]_vars

\* the timer of the one finger down is pending
PressPending == touches = 1 /\ touchTimeout # 0 /\ ~isDragging

\* the one finger down moved too far before its timer fired: no callback is
\* pending and no task is held (a timer that fires takes hold of its task
\* until the release)
PressAborted == touches = 1 /\ timers = <<>> /\ draggedTask = 0

StylesInUse == {elems[e].style : e \in DOMAIN elems}

\* What every event leaves true of the entry into Dragging: a timer callback
\* changes neither isDragging nor the style of a card; the step that enters
\* Dragging is a move event, handled with no timer handle stored (the timer
\* of the latest press has fired) and a task and a card held.
EntersDraggingByMove ==
    [][ /\ last'.ev = "timer" =>
               /\ isDragging' = isDragging
               /\ StylesInUse' \subseteq StylesInUse
        /\ (~isDragging /\ isDragging') =>
               /\ last'.ev = "touchmove"
               /\ touchTimeout = 0
               /\ draggedTask # 0
               /\ draggedElement # 0
               /\ hasMoved'
      ]_vars

OnlyReleaseLeavesDragging ==
    [][ /\ (isDragging /\ ~isDragging') =>
               last'.ev \in {"tap", "touchend", "touchcancel"}
        /\ (isDragging /\ last'.ev \notin {"tap", "touchend", "touchcancel"}) =>
               /\ draggedElement' # 0
               /\ draggedTask' # 0
        /\ (isDragging /\ last'.ev = "touchmove") =>
               /\ last'.probe # NoProbe
               /\ timers' = timers
               /\ touchTimeout' = touchTimeout
               /\ draggedTask' = draggedTask
      ]_vars

\* a move event was handled as a drag move while the timer of a second press
\* was pending
DragMoveWitness ==
    /\ last.ev = "touchmove"
    /\ last.dragging
    /\ isDragging
    /\ last.probe = NoColumn
    /\ touchTimeout # 0

\* C28: cleanupDragState run twice leaves what one run leaves, from every
\* state; run while the recognizer is Idle it leaves the task list,
\* nextTaskId, the cards and their styles, and the pending callbacks as they
\* are, and all it may change is hasMoved and the highlight of a column.
CleanupIdempotent ==
    LET once == cleanupDragState(Now) IN
    /\ cleanupDragState(once) = once
    /\ once.tasks = tasks
    /\ once.nextTaskId = nextTaskId
    /\ Idle => once = [Now EXCEPT !.hasMoved = FALSE, !.dragOver = {}]

\* a drag over a highlighted column: the cleanup changes the state, and
\* changes it no further when run again
CleanupWitness ==
    /\ isDragging
    /\ dragOver # {}
    /\ touchTimeout # 0
    /\ cleanupDragState(Now) # Now
    /\ cleanupDragState(cleanupDragState(Now)) = cleanupDragState(Now)

\* the step took the terminal-bypass branch for task i: the celebration is
\* the one effect and the task is where and as it was
TookBypass(i) == last'.fx = <<Celebration>> /\ tasks'[i] = tasks[i]

\* C31: every moveTask call a release, a cancel or a drop makes is for the
\* task the session holds, and the source column it passes is the column
\* that task is in when the call is made; so the call takes the
\* terminal-bypass branch exactly when that task is in a final column.
SourceIsCurrentColumn ==
    [][ \A k \in 1..Len(last'.calls) :
            LET call == last'.calls[k] IN
            /\ last'.ev \in {"tap", "touchend", "touchcancel", "drop"}
            /\ call.task = draggedTask
            /\ call.task # 0
            /\ call.from = tasks[call.task].columnId
            /\ TookBypass(call.task)
                   <=> getColumnById(tasks[call.task].columnId).isFinal
      ]_vars

\* a task that had been moved to the final column was released over another
\* column, and the call took the bypass
SourceWitness ==
    /\ last.ev = "touchend"
    /\ Len(last.calls) = 1
    /\ last.calls[1].from = "production"
    /\ last.calls[1].to = "todo"
    /\ tasks[last.calls[1].task].columnId = "production"
    /\ last.fx = <<Celebration>>

\* C32: the target of a moveTask call made by a release or a cancel is a
\* column found under the finger by a move event of the same drag: outside a
\* drag no column is recorded, a drag starts with none recorded, a column is
\* recorded only by the probe of a move event handled while Dragging, the
\* release or cancel passes the column recorded, and after it none is
\* recorded.
TargetHoveredThisSession ==
    [][ /\ ~isDragging => lastColumnOver = NoColumn
        /\ (~isDragging /\ isDragging') => lastColumnOver' = NoColumn
        /\ lastColumnOver' \notin {lastColumnOver, NoColumn} =>
               /\ isDragging
               /\ last'.ev = "touchmove"
               /\ last'.probe = lastColumnOver'
        /\ last'.ev \in {"tap", "touchend", "touchcancel"} =>
               /\ \A k \in 1..Len(last'.calls) :
                      /\ isDragging
                      /\ lastColumnOver # NoColumn
                      /\ last'.calls[k].to = lastColumnOver
               /\ lastColumnOver' = NoColumn
      ]_vars

\* the release of a later drag took the task back from the column an
\* earlier one had taken it to
LaterSessionWitness ==
    /\ last.ev = "touchend"
    /\ last.dragging
    /\ Len(last.calls) = 1
    /\ last.calls[1].from = "doing"
    /\ last.calls[1].to = "backlog"
    /\ tasks[last.calls[1].task].columnId = "backlog"
    /\ lastColumnOver = NoColumn

\* C33, as stated: whenever isDragging is true a task and a card are held and
\* the card is the card of that task, also when dragstart and dragend, which
\* write draggedTask too, arrive in the course of a touch gesture.
DraggingHoldsTaskAndCard ==
    isDragging =>
        /\ draggedTask # 0
        /\ draggedElement # 0
        /\ elems[draggedElement].taskId = tasks[draggedTask].id

\* the note moveTask takes of the one call a drop on column c makes while a
\* task is held
DropCall(c) ==
    [task |-> draggedTask, to |-> c, from |-> tasks[draggedTask].columnId]

\* C34: a dragstart on a card takes hold of the card's task; a drop on a
\* column while a task is held calls moveTask once, for that task, with the
\* column that received the drop as target; a drop while no task is held
\* calls nothing and changes no task; dragend clears draggedTask, calls
\* nothing and changes no task, whether a drop came before it or not.
DropMovesToReceivingColumn ==
    /\ [](\A c \in ColumnIds :
            \A ch \in DrawsFor(DropMoves(Now), c) :
                RoomDesktop(DropMoves(Now), c) =>
                    handleDrop(Now, c, ch).log =
                        IF draggedTask # 0 THEN <<DropCall(c)>> ELSE <<>>)
    /\ [][ /\ (last'.ev = "dragstart" /\ dragSource' # 0) =>
                  /\ draggedTask' # 0
                  /\ tasks[draggedTask'].id = elems'[dragSource'].taskId
           /\ (last'.ev = "drop" /\ draggedTask = 0) =>
                  /\ last'.calls = <<>>
                  /\ last'.fx = <<>>
                  /\ tasks' = tasks
           /\ (last'.ev = "drop" /\ draggedTask # 0) =>
                  /\ Len(last'.calls) = 1
                  /\ last'.calls[1].task = draggedTask
           /\ last'.ev = "dragend" =>
                  /\ draggedTask' = 0
                  /\ last'.calls = <<>>
                  /\ tasks' = tasks
         ]_vars

\* a drag that held no task was dropped on a column, after a task had been
\* moved by an earlier drag
DropWithoutTaskWitness ==
    /\ last.ev = "drop"
    /\ last.calls = <<>>
    /\ draggedTask = 0
    /\ dndPhase = "dropped"
    /\ \E i \in 1..Len(tasks) : tasks[i].columnId = "doing"

\* C35: a drop on the column the dragged task is in is not short-circuited:
\* moveTask is called with that column as source and as target.  If the
\* column is not final the task stays in it, its team is drawn again by the
\* column's assignee rules and its description from the column's greetings
\* for that team, and the column's effect is dispatched (one registry entry
\* for a registered name or "random", nothing where none is configured); if
\* the column is final the call takes the bypass: the celebration, the task
\* as it was, and a new backlog task.
SameColumnDropRuns ==
    /\ [](\A ch \in DrawsFor(DropMoves(Now),
                             IF draggedTask # 0
                             THEN tasks[draggedTask].columnId ELSE NoColumn) :
            LET c == tasks[draggedTask].columnId IN
            (draggedTask # 0 /\ RoomDesktop(TRUE, c)) =>
                handleDrop(Now, c, ch).log =
                    <<[task |-> draggedTask, to |-> c, from |-> c]>>)
    /\ [][ \A k \in FoundCallsNext :
             LET call == last'.calls[k]
                 column == getColumnById(call.to)
                 before == tasks[call.task]
                 after == tasks'[call.task]
             IN call.from = call.to =>
                 IF column.isFinal
                 THEN /\ last'.fx = <<Celebration>>
                      /\ after = before
                      /\ BacklogConfigured =>
                             /\ Len(tasks') = Len(tasks) + 1
                             /\ tasks'[Len(tasks')].columnId = "backlog"
                 ELSE /\ after.columnId = before.columnId
                      /\ after.id = before.id
                      /\ after.teamId \in ResolveAssignee(column)
                      /\ after.description
                             \in getGreetingForTask(call.to, after.teamId)
                      /\ Len(tasks') = Len(tasks)
                      /\ column.effect = NoEffect => last'.fx = <<>>
                      /\ column.effect \in RegistryKeys =>
                             last'.fx = <<Dispatched(column.effect)>>
                      /\ column.effect = "random" =>
                             \E e \in RegistryKeys :
                                 last'.fx = <<Dispatched(e)>>
         ]_vars

\* a task in a column that is not final was dropped on that column: it is
\* still there and the column's effect was dispatched
SameColumnWitness ==
    /\ config = ShakeConfig
    /\ last.ev = "drop"
    /\ Len(last.calls) = 1
    /\ last.calls[1].from = "review"
    /\ last.calls[1].to = "review"
    /\ tasks[last.calls[1].task].columnId = "review"
    /\ last.fx = <<Dispatched("shake")>>

\* loadConfig has returned or thrown
LoadTerminated == last.pc \in {"loaded", "raised", "skipped", "initialized"}

\* What every run leaves true of the loader: at most maxRetries fetch calls,
\* one per attempt; none after the one that succeeded; a throw only after
\* maxRetries failed attempts, with one alert and nothing initialized; tasks
\* seeded only with a configuration loaded, and at most once.
LoadIsBoundedAndGuarded ==
    /\ [](/\ last.fetches <= maxRetries
          /\ last.fetches = last.attempt
          /\ last.inits <= 1
          /\ last.pc = "raised" =>
                 /\ last.fetches = maxRetries
                 /\ last.alerts = 1
                 /\ config = NoConfig
          /\ (last.inits = 0) = (tasks = <<>> /\ elems = <<>>)
          /\ last.inits > 0 => config # NoConfig
          /\ config = NoConfig => nextTaskId = InitialNextTaskId)
    /\ [][ /\ LoadTerminated => last'.fetches = last.fetches
           /\ last'.fetches \in {last.fetches, last.fetches + 1}
           /\ LoadTerminated => LoadTerminated'
           /\ config # NoConfig => config' = config
         ]_vars

\* C36, as stated: loadConfig makes at most 3 fetch attempts, stops at the
\* first successful one and terminates in every case; it raises when all 3
\* fail, so that nothing is initialized without a loaded configuration, and
\* seed tasks are initialized at most once.
LoadTerminatesBoundedAndGuarded ==
    /\ LoadIsBoundedAndGuarded
    /\ <>LoadTerminated
====
